---------------------------- MODULE Spec2Model ----------------------------
(***************************************************************************)
(* Model of mclog's static log analyzer (src/analyzer/mod.rs).             *)
(*                                                                         *)
(* The program is Analyzer::new(lines), which classifies the platform of   *)
(* a server log, followed by Analyzer::build(plugins_limit, ports_limit),  *)
(* which reads configuration/ports.toml and assembles the report.          *)
(*                                                                         *)
(* A log line is a string.  The model keeps of a line exactly what the     *)
(* analyzer observes of it:                                                *)
(*   has     - the notable substrings the line contains (str::contains)    *)
(*   plugin  - what StaticAnalyzer::plugin_bukkit yields on the line       *)
(*   version - what StaticAnalyzer::noproxy_server_version yields          *)
(*   vport   - what StaticAnalyzer::vanilla_port yields, per message       *)
(*   pport   - what StaticAnalyzer::port yields, per must_contain string   *)
(* An Option<T> is a sequence of length 0 (None) or 1 (Some).              *)
(***************************************************************************)
EXTENDS Naturals, Sequences, FiniteSets, TLC

VARIABLES
    input,      \* the caller's arguments: lines, plugins_limit, ports_limit
    config,     \* the state of configuration/ports.toml in the working directory
    analyzer,   \* Option<Analyzer>: the value Analyzer::new returned
    report,     \* Option<DynamicAnalyzerDetails>: the value build returned
    panic       \* Option<String>: the unwrap() that aborted build

vars == <<input, config, analyzer, report, panic>>

None == <<>>
Some(x) == <<x>>
is_some(o) == o # None
unwrap(o) == o[1]

----------------------------------------------------------------------------
(* enum Platform *)
Platform ==
    {"Vanilla", "CraftBukkit", "Spigot", "Paper", "Pufferfish", "Purpur",
     "Fabric", "Forge", "BungeeCord", "Waterfall", "Velocity"}

(* the constants of determine_platform *)
CRAFTBUKKIT == "This server is running CraftBukkit version"
PAPER == "This server is running Paper version"
PUFFERFISH == "This server is running Pufferfish version"
PURPUR == "This server is running Purpur version"
FABRIC == "with Fabric Loader"
FORGE == "Forge mod loading, version"
BUNGEECORD == "Enabled BungeeCord version"
WATERFALL == "Enabled Waterfall version"
VELOCITY == "Booting up Velocity"
SPIGOT_TAG == "-Spigot"
PAPER_TAG == "Paper"

(* the constants of Analyzer::vanilla_ports *)
SERVER_PORT_MESSAGE == "Starting Minecraft server on"
QUERY_PORT_MESSAGE == "Query running on"
RCON_PORT_MESSAGE == "RCON running on"

VanillaMessages == {SERVER_PORT_MESSAGE, QUERY_PORT_MESSAGE, RCON_PORT_MESSAGE}

(* str::contains, on the substrings the analyzer asks about *)
contains(line, pat) == pat \in line.has

(* lines.iter().any(|line| line.contains(pat)) *)
RECURSIVE any_from(_, _, _)
any_from(lines, i, pat) ==
    IF i > Len(lines) THEN FALSE
    ELSE IF contains(lines[i], pat) THEN TRUE
    ELSE any_from(lines, i + 1, pat)

any_contains(lines, pat) == any_from(lines, 1, pat)

(* lines.iter().find(|line| line.contains(pat)): the first such line *)
RECURSIVE find_from(_, _, _)
find_from(lines, i, pat) ==
    IF i > Len(lines) THEN None
    ELSE IF contains(lines[i], pat) THEN Some(lines[i])
    ELSE find_from(lines, i + 1, pat)

(* mutant: the last such line instead of the first (rfind) *)
RECURSIVE rfind_from(_, _, _)
rfind_from(lines, i, pat) ==
    IF i < 1 THEN None
    ELSE IF contains(lines[i], pat) THEN Some(lines[i])
    ELSE rfind_from(lines, i - 1, pat)

find_contains_last(lines, pat) == rfind_from(lines, Len(lines), pat)

find_contains(lines, pat) == find_from(lines, 1, pat)

(* the match on craftbukkit_option, arm Some(line) *)
craftbukkit_arm(line) ==
    IF contains(line, SPIGOT_TAG) THEN "Spigot"
    ELSE IF contains(line, PAPER_TAG) THEN "Paper"
    ELSE "CraftBukkit"

(* the match on craftbukkit_option, arm None; an empty first branch and a  *)
(* chain without a hit both fall through to the final Platform::Vanilla     *)
(* mutant: Pufferfish tested before Purpur *)
fallback_arm_swapped(lines) ==
    IF any_contains(lines, PAPER) THEN "Vanilla"
    ELSE IF any_contains(lines, PUFFERFISH) THEN "Pufferfish"
    ELSE IF any_contains(lines, PURPUR) THEN "Purpur"
    ELSE IF any_contains(lines, BUNGEECORD) THEN "BungeeCord"
    ELSE IF any_contains(lines, WATERFALL) THEN "Waterfall"
    ELSE IF any_contains(lines, VELOCITY) THEN "Velocity"
    ELSE IF any_contains(lines, FORGE) THEN "Forge"
    ELSE IF any_contains(lines, FABRIC) THEN "Fabric"
    ELSE "Vanilla"

fallback_arm(lines) ==
    IF any_contains(lines, PAPER) THEN "Vanilla"
    ELSE IF any_contains(lines, PURPUR) THEN "Purpur"
    ELSE IF any_contains(lines, PUFFERFISH) THEN "Pufferfish"
    ELSE IF any_contains(lines, BUNGEECORD) THEN "BungeeCord"
    ELSE IF any_contains(lines, WATERFALL) THEN "Waterfall"
    ELSE IF any_contains(lines, VELOCITY) THEN "Velocity"
    ELSE IF any_contains(lines, FORGE) THEN "Forge"
    ELSE IF any_contains(lines, FABRIC) THEN "Fabric"
    ELSE "Vanilla"

(* mutant: the CraftBukkit line is examined before the Paper banner *)
determine_platform_craftbukkit_first(lines) ==
    LET craftbukkit_option == find_contains(lines, CRAFTBUKKIT)
    IN  IF is_some(craftbukkit_option)
        THEN craftbukkit_arm(unwrap(craftbukkit_option))
        ELSE IF any_contains(lines, PAPER) THEN "Paper"
        ELSE fallback_arm(lines)

determine_platform(lines) ==
    LET craftbukkit_option == find_contains(lines, CRAFTBUKKIT)
    IN  IF any_contains(lines, PAPER) THEN "Paper"
        ELSE IF is_some(craftbukkit_option)
             THEN craftbukkit_arm(unwrap(craftbukkit_option))
             ELSE fallback_arm(lines)

(* Analyzer::new *)
new(lines) == [lines |-> lines, platform |-> determine_platform(lines)]

is_proxy(self) == self.platform \in {"BungeeCord", "Waterfall", "Velocity"}

is_modded(self) == self.platform \in {"Forge", "Fabric"}

(* mutant: Purpur left out of the Bukkit-derived platforms *)
is_bukkit_based_without_purpur(self) ==
    self.platform \in {"CraftBukkit", "Spigot", "Paper", "Pufferfish"}

is_bukkit_based(self) ==
    self.platform \in {"CraftBukkit", "Spigot", "Paper", "Pufferfish", "Purpur"}


----------------------------------------------------------------------------
(* The line-level extractors of StaticAnalyzer (module static_analyzer).   *)
(* Each yields what the line carries for it.                               *)

(* StaticAnalyzer::plugin_bukkit(line) -> Option<Plugin> *)
plugin_bukkit(line) == line.plugin

(* StaticAnalyzer::noproxy_server_version(line) -> Option<String> *)
noproxy_server_version(line) == line.version

(* StaticAnalyzer::vanilla_port(line, message) -> Option<u16> *)
vanilla_port(line, message) == line.vport[message]

(* StaticAnalyzer::port(name, line, must_contain) -> Option<(String, u16)>: *)
(* the line must contain must_contain; the result carries the name          *)
port(name, line, must_contain) ==
    IF contains(line, must_contain) /\ is_some(line.pport[must_contain])
    THEN Some(<<name, unwrap(line.pport[must_contain])>>)
    ELSE None

----------------------------------------------------------------------------
(* HashMap::new and HashMap::insert *)
EmptyMap == [k \in {} |-> 0]

insert(m, k, v) == [x \in DOMAIN m \cup {k} |-> IF x = k THEN v ELSE m[x]]

Min(a, b) == IF a < b THEN a ELSE b

(* lines.iter().take(n) *)
take(lines, n) == SubSeq(lines, 1, Min(n, Len(lines)))

(* the body of the for loop of Analyzer::plugins, on one line *)
plugins_step(self, line, acc) ==
    IF is_proxy(self) THEN acc
    ELSE IF is_bukkit_based(self)
         THEN LET p == plugin_bukkit(line)
              IN  IF is_some(p)
                  THEN insert(acc, unwrap(p).name, unwrap(p).version)
                  ELSE acc
         ELSE acc

RECURSIVE plugins_loop(_, _, _, _)
plugins_loop(self, scanned, i, acc) ==
    IF i > Len(scanned) THEN acc
    ELSE plugins_loop(self, scanned, i + 1, plugins_step(self, scanned[i], acc))

(* Analyzer::plugins *)
(* mutant: the scan ignores line_limit *)
plugins_unlimited(self, line_limit) ==
    plugins_loop(self, self.lines, 1, EmptyMap)

plugins(self, line_limit) ==
    plugins_loop(self, take(self.lines, line_limit), 1, EmptyMap)

RECURSIVE version_loop(_, _)
version_loop(lines, i) ==
    IF i > Len(lines) THEN None
    ELSE LET v == noproxy_server_version(lines[i])
         IN  IF is_some(v) THEN v ELSE version_loop(lines, i + 1)

(* mutant: the last line that yields a version instead of the first *)
RECURSIVE version_rloop(_, _)
version_rloop(lines, i) ==
    IF i < 1 THEN None
    ELSE LET v == noproxy_server_version(lines[i])
         IN  IF is_some(v) THEN v ELSE version_rloop(lines, i - 1)

version_last(self) ==
    IF is_proxy(self) THEN None ELSE version_rloop(self.lines, Len(self.lines))

(* Analyzer::version *)
version(self) ==
    IF is_proxy(self) THEN None ELSE version_loop(self.lines, 1)

(* mutant: a field once set is kept (first match wins) *)
vanilla_field_first(line, message, old) ==
    LET p == vanilla_port(line, message)
    IN  IF is_some(old) THEN old ELSE p

(* one match of the loop of Analyzer::vanilla_ports *)
vanilla_field(line, message, old) ==
    LET p == vanilla_port(line, message)
    IN  IF is_some(p) THEN p ELSE old

(* the body of the for loop of Analyzer::vanilla_ports, on one line *)
vanilla_step(line, acc) ==
    [server |-> vanilla_field(line, SERVER_PORT_MESSAGE, acc.server),
     query  |-> vanilla_field(line, QUERY_PORT_MESSAGE, acc.query),
     rcon   |-> vanilla_field(line, RCON_PORT_MESSAGE, acc.rcon)]

RECURSIVE vanilla_loop(_, _, _)
vanilla_loop(lines, i, acc) ==
    IF i > Len(lines) THEN acc
    ELSE vanilla_loop(lines, i + 1, vanilla_step(lines[i], acc))

(* Analyzer::vanilla_ports *)
vanilla_ports(self) ==
    vanilla_loop(self.lines, 1, [server |-> None, query |-> None, rcon |-> None])

(* mutant: the substrings of an entry as a conjunction: the port is set    *)
(* only by a line that contains them all                                   *)
RECURSIVE must_contain_each(_, _, _, _, _)
must_contain_each(name, subs, line, j, acc) ==
    IF j > Len(subs) THEN acc
    ELSE LET r == port(name, line, subs[j])
         IN  must_contain_each(name, subs, line, j + 1,
                 IF is_some(r) THEN insert(acc, unwrap(r)[1], unwrap(r)[2])
                 ELSE acc)

must_contain_all(name, subs, line, j, acc) ==
    IF \A x \in DOMAIN subs : contains(line, subs[x])
    THEN must_contain_each(name, subs, line, j, acc)
    ELSE acc

(* for must_contain in port.1: the substrings of one entry, in Vec order *)
RECURSIVE must_contain_loop(_, _, _, _, _)
must_contain_loop(name, subs, line, j, acc) ==
    IF j > Len(subs) THEN acc
    ELSE LET r == port(name, line, subs[j])
         IN  must_contain_loop(name, subs, line, j + 1,
                 IF is_some(r) THEN insert(acc, unwrap(r)[1], unwrap(r)[2])
                 ELSE acc)

(* for port in &section: the entries, in the HashMap's iteration order *)
RECURSIVE entries_loop(_, _, _, _, _)
entries_loop(section, order, line, k, acc) ==
    IF k > Len(order) THEN acc
    ELSE entries_loop(section, order, line, k + 1,
             must_contain_loop(order[k], section[order[k]], line, 1, acc))

(* for line in self.lines.iter().take(ports_lines_limit) *)
RECURSIVE ports_loop(_, _, _, _, _)
ports_loop(section, order, scanned, i, acc) ==
    IF i > Len(scanned) THEN acc
    ELSE ports_loop(section, order, scanned, i + 1,
             entries_loop(section, order, scanned[i], 1, acc))

(* mutant: the early return on a platform that is not Bukkit-derived is    *)
(* missing                                                                 *)
plugin_ports_ungated(self, ports_root, order, ports_lines_limit) ==
    ports_loop(ports_root.ports.plugins, order,
               take(self.lines, ports_lines_limit), 1, EmptyMap)

(* Analyzer::plugin_ports; order is the iteration order of ports.plugins *)
plugin_ports(self, ports_root, order, ports_lines_limit) ==
    IF ~is_bukkit_based(self) THEN EmptyMap
    ELSE ports_loop(ports_root.ports.plugins, order,
                    take(self.lines, ports_lines_limit), 1, EmptyMap)

(* Analyzer::mod_ports; order is the iteration order of ports.mods *)
mod_ports(self, ports_root, order, ports_lines_limit) ==
    IF ~is_modded(self) THEN EmptyMap
    ELSE ports_loop(ports_root.ports.mods, order,
                    take(self.lines, ports_lines_limit), 1, EmptyMap)

(* the struct literal of Analyzer::build *)
details(self, ports_root, order_p, order_m, plugins_limit, ports_limit) ==
    [lines           |-> self.lines,
     plugins         |-> plugins(self, plugins_limit),
     platform        |-> self.platform,
     version         |-> version(self),
     is_modded       |-> is_modded(self),
     is_proxy        |-> is_proxy(self),
     is_bukkit_based |-> is_bukkit_based(self),
     ports           |-> [vanilla |-> vanilla_ports(self),
                          plugins |-> plugin_ports(self, ports_root, order_p, ports_limit),
                          mods    |-> mod_ports(self, ports_root, order_m, ports_limit)]]

(* the iteration orders a HashMap with these keys can have *)
Orders(keys) ==
    {o \in [1..Cardinality(keys) -> keys] : \A a, b \in DOMAIN o : o[a] = o[b] => a = b}

(* the three unwrap() calls of build on the way to ports_root *)
load_error(cfg) ==
    IF ~cfg.cwd THEN Some("current_dir: unwrap on Err")
    ELSE IF ~cfg.exists THEN Some("read_to_string: unwrap on Err(NotFound)")
    ELSE IF ~cfg.parses THEN Some("toml::from_str: unwrap on Err")
    ELSE None

----------------------------------------------------------------------------
(* Actions *)

(* let analyzer = Analyzer::new(&lines) *)
New ==
    /\ analyzer = None
    /\ analyzer' = Some(new(input.lines))
    /\ UNCHANGED <<input, config, report, panic>>

(* analyzer.build(plugins_limit, ports_limit), the pattern table loaded *)
Build ==
    /\ is_some(analyzer) /\ report = None /\ panic = None
    /\ load_error(config) = None
    /\ \E order_p \in Orders(DOMAIN config.root.ports.plugins),
          order_m \in Orders(DOMAIN config.root.ports.mods) :
          report' = Some(details(unwrap(analyzer), config.root, order_p, order_m,
                                 input.plugins_limit, input.ports_limit))
    /\ UNCHANGED <<input, config, analyzer, panic>>

(* analyzer.build(plugins_limit, ports_limit), one of the unwrap()s panics *)
BuildPanic ==
    /\ is_some(analyzer) /\ report = None /\ panic = None
    /\ load_error(config) # None
    /\ panic' = load_error(config)
    /\ UNCHANGED <<input, config, analyzer, report>>

Next == New \/ Build \/ BuildPanic


----------------------------------------------------------------------------
(* Inputs.  MaxLines bounds the length of the log in the specifications    *)
(* that exercise one extractor, MaxReportLines in the one that exercises   *)
(* the whole report.                                                       *)
MaxLines == 3
MaxReportLines == 2

(* the substrings the pattern tables below ask for, and the values read *)
WEB_A == "Web server started"
WEB_B == "Webserver bound"
VOTE == "Votifier enabled"
Triggers == {WEB_A, WEB_B, VOTE}
PortValues == {8123, 8192}
VanillaPortValues == {25565, 25575}
PluginNames == {"Essentials", "Vault"}
Versions == {"1.0", "2.0"}

Banners ==
    {CRAFTBUKKIT, PAPER, PUFFERFISH, PURPUR, FABRIC, FORGE, BUNGEECORD,
     WATERFALL, VELOCITY}

(* a line with none of the substrings and nothing to extract *)
BlankLine ==
    [has     |-> {},
     plugin  |-> None,
     version |-> None,
     vport   |-> [m \in VanillaMessages |-> None],
     pport   |-> [t \in Triggers |-> None]]

(* a string that contains PAPER contains "Paper" *)
Closure(S) == IF PAPER \in S THEN S \cup {PAPER_TAG} ELSE S

HasLine(S) == [BlankLine EXCEPT !.has = Closure(S)]

PluginLine(n, v) == [BlankLine EXCEPT !.plugin = Some([name |-> n, version |-> v])]

VersionLine(v) == [BlankLine EXCEPT !.version = Some(v)]

(* a line that contains the triggers of DOMAIN f and yields f[t] for t *)
PortLine(f) ==
    [BlankLine EXCEPT !.has = DOMAIN f,
                      !.pport = [t \in Triggers |-> IF t \in DOMAIN f THEN f[t] ELSE None]]

(* the logs of exactly k lines drawn from L *)
Logs(L, k) == [1..k -> L]

(* configuration/ports.toml *)
EmptyRoot == [ports |-> [plugins |-> EmptyMap, mods |-> EmptyMap]]

File(root) == [cwd |-> TRUE, exists |-> TRUE, parses |-> TRUE, root |-> root]
NoCwd == [cwd |-> FALSE, exists |-> FALSE, parses |-> FALSE, root |-> EmptyRoot]
MissingFile == [cwd |-> TRUE, exists |-> FALSE, parses |-> FALSE, root |-> EmptyRoot]
MalformedFile == [cwd |-> TRUE, exists |-> TRUE, parses |-> FALSE, root |-> EmptyRoot]

Start(lines, plugins_limit, ports_limit, cfg) ==
    /\ input = [lines |-> lines, plugins_limit |-> plugins_limit,
                ports_limit |-> ports_limit]
    /\ config = cfg
    /\ analyzer = None
    /\ report = None
    /\ panic = None

----------------------------------------------------------------------------
(* Platform detection: every line carries at most one banner, with or      *)
(* without the tags "-Spigot" and "Paper".                                 *)
DetectLines ==
    {HasLine(B \cup T) : B \in {{}} \cup {{b} : b \in Banners},
                         T \in SUBSET {SPIGOT_TAG, PAPER_TAG}}

InitDetect ==
    \E k \in 0..MaxLines : \E ls \in Logs(DetectLines, k) :
        Start(ls, 0, 0, MissingFile)

NextDetect == New

SpecDetect == InitDetect /\ [][NextDetect]_vars


(* what the formulas below read *)
Lines == input.lines
Has(i, pat) == pat \in Lines[i].has
Somewhere(pat) == \E i \in DOMAIN Lines : Has(i, pat)
Detected == is_some(analyzer)
ThePlatform == unwrap(analyzer).platform
FirstIndex(pat) == CHOOSE i \in DOMAIN Lines :
                       Has(i, pat) /\ \A j \in 1..(i - 1) : ~Has(j, pat)

(* C1: a log with the Paper banner on any line is classified Paper,        *)
(* whatever other banners it holds and wherever they stand.                *)
C1_PaperBannerWins ==
    (Detected /\ Somewhere(PAPER)) => ThePlatform = "Paper"

(* C1 witness: a CraftBukkit line with "-Spigot", then a Purpur banner,    *)
(* then the Paper banner; classified Paper.                                *)
C1_Witness ==
    /\ Detected /\ Len(Lines) = 3
    /\ Has(1, CRAFTBUKKIT) /\ Has(1, SPIGOT_TAG) /\ ~Has(1, PAPER)
    /\ Has(2, PURPUR)
    /\ Has(3, PAPER)
    /\ ThePlatform = "Paper"

(* C2: without a Paper banner and with a CraftBukkit banner line, the      *)
(* first CraftBukkit line alone decides: Spigot if it contains "-Spigot",  *)
(* else Paper if it contains "Paper", else CraftBukkit.                    *)
C2_FirstCraftBukkitLineDecides ==
    (Detected /\ ~Somewhere(PAPER) /\ Somewhere(CRAFTBUKKIT)) =>
        LET f == FirstIndex(CRAFTBUKKIT)
        IN  ThePlatform = (IF Has(f, SPIGOT_TAG) THEN "Spigot"
                           ELSE IF Has(f, PAPER_TAG) THEN "Paper"
                           ELSE "CraftBukkit")

(* C2 witness: a Purpur banner, a CraftBukkit line with "Paper" only, a    *)
(* later CraftBukkit line with "-Spigot"; classified Paper by the first.   *)
C2_Witness ==
    /\ Detected /\ Len(Lines) = 3 /\ ~Somewhere(PAPER)
    /\ Has(1, PURPUR) /\ ~Has(1, CRAFTBUKKIT)
    /\ Has(2, CRAFTBUKKIT) /\ Has(2, PAPER_TAG) /\ ~Has(2, SPIGOT_TAG)
    /\ Has(3, CRAFTBUKKIT) /\ Has(3, SPIGOT_TAG)
    /\ ThePlatform = "Paper"

(* the fixed order of the remaining markers and their platforms *)
MarkerOrder ==
    << <<PURPUR, "Purpur">>, <<PUFFERFISH, "Pufferfish">>,
       <<BUNGEECORD, "BungeeCord">>, <<WATERFALL, "Waterfall">>,
       <<VELOCITY, "Velocity">>, <<FORGE, "Forge">>, <<FABRIC, "Fabric">> >>

(* C3: without a Paper banner and without a CraftBukkit line the platform  *)
(* is that of the first marker of the fixed order that some line holds,    *)
(* Vanilla when none does; every log, the empty one included, gets exactly *)
(* one Platform.                                                           *)
C3_FixedOrderThenVanilla ==
    /\ (~Detected) => ENABLED New
    /\ Detected => ThePlatform \in Platform
    /\ (Detected /\ ~Somewhere(PAPER) /\ ~Somewhere(CRAFTBUKKIT)) =>
          LET present == {k \in DOMAIN MarkerOrder : Somewhere(MarkerOrder[k][1])}
          IN  IF present = {} THEN ThePlatform = "Vanilla"
              ELSE \E k \in present :
                      /\ \A j \in present : k <= j
                      /\ ThePlatform = MarkerOrder[k][2]

(* C3 witness: Fabric, then Pufferfish, then Purpur by line order;         *)
(* classified Purpur.                                                      *)
C3_Witness ==
    /\ Detected /\ Len(Lines) = 3
    /\ ~Somewhere(PAPER) /\ ~Somewhere(CRAFTBUKKIT)
    /\ Has(1, FABRIC) /\ Has(2, PUFFERFISH) /\ Has(3, PURPUR)
    /\ ThePlatform = "Purpur"

(* C3 witness, second case: the empty log is classified Vanilla *)
C3_WitnessEmpty == Detected /\ Lines = <<>> /\ ThePlatform = "Vanilla"


----------------------------------------------------------------------------
(* one line per platform: the nine banners, a CraftBukkit line with         *)
(* "-Spigot", and a line without any marker                                 *)
PlatformLines ==
    {HasLine({b}) : b \in Banners} \cup {HasLine({CRAFTBUKKIT, SPIGOT_TAG}), BlankLine}

(* the pattern table present or absent, with nothing in it *)
PlainConfigs == {MissingFile, File(EmptyRoot)}

----------------------------------------------------------------------------
(* Plugin extraction *)
PluginsLines ==
    PlatformLines \cup {PluginLine(n, v) : n \in PluginNames, v \in Versions}

InitPlugins ==
    \E k \in 0..MaxLines : \E ls \in Logs(PluginsLines, k) :
        \E limit \in 0..(k + 1) : \E cfg \in PlainConfigs :
            Start(ls, limit, 0, cfg)

SpecPlugins == InitPlugins /\ [][Next]_vars

Built == is_some(report)
TheReport == unwrap(report)
BukkitDerived == {"CraftBukkit", "Spigot", "Paper", "Pufferfish", "Purpur"}
Proxies == {"BungeeCord", "Waterfall", "Velocity"}
Modded == {"Forge", "Fabric"}

(* the indices of the first min(limit, number of lines) lines *)
Window(limit) == {i \in DOMAIN Lines : i <= limit}

(* the lines of the window on which the plugin extractor yields name n *)
Announcing(n, limit) ==
    {i \in Window(limit) : Lines[i].plugin # <<>> /\ Lines[i].plugin[1].name = n}

Last(S) == CHOOSE i \in S : \A j \in S : j <= i
First(S) == CHOOSE i \in S : \A j \in S : i <= j

(* C4: on a Bukkit-derived platform the plugins of the report are exactly  *)
(* the names announced on the first min(line_limit, number of lines)       *)
(* lines, each with the version of the last line of the window announcing  *)
(* it; on every other platform the mapping is empty.                       *)
C4_PluginsWithinLimitLastWins ==
    Built =>
        LET m == TheReport.plugins
            limit == input.plugins_limit
        IN  IF TheReport.platform \in BukkitDerived
            THEN /\ DOMAIN m = {n \in PluginNames : Announcing(n, limit) # {}}
                 /\ \A n \in DOMAIN m :
                        m[n] = Lines[Last(Announcing(n, limit))].plugin[1].version
            ELSE DOMAIN m = {}

(* C4 witness: Paper banner, Essentials 1.0, Essentials 2.0 with limit 2:  *)
(* the third line does not contribute.                                     *)
C4_Witness ==
    /\ Built /\ Len(Lines) = 3 /\ input.plugins_limit = 2
    /\ Has(1, PAPER)
    /\ Lines[2].plugin = <<[name |-> "Essentials", version |-> "1.0"]>>
    /\ Lines[3].plugin = <<[name |-> "Essentials", version |-> "2.0"]>>
    /\ DOMAIN TheReport.plugins = {"Essentials"}
    /\ TheReport.plugins["Essentials"] = "1.0"

(* C4 witness, second case: a name announced twice within the window keeps *)
(* the later version.                                                      *)
C4_WitnessOverwrite ==
    /\ Built /\ Len(Lines) = 3 /\ input.plugins_limit = 3
    /\ Lines[1].plugin = <<[name |-> "Vault", version |-> "2.0"]>>
    /\ Lines[2].plugin = <<[name |-> "Vault", version |-> "1.0"]>>
    /\ Has(3, PURPUR)
    /\ TheReport.plugins["Vault"] = "1.0"

(* C4 witness, third case: a proxy log with plugin lines has no plugins *)
C4_WitnessProxy ==
    /\ Built /\ Len(Lines) = 2 /\ input.plugins_limit = 2
    /\ Has(1, VELOCITY) /\ Lines[2].plugin # <<>>
    /\ TheReport.platform = "Velocity"
    /\ DOMAIN TheReport.plugins = {}


----------------------------------------------------------------------------
(* Version extraction *)
VersionLines ==
    PlatformLines \cup {VersionLine(v) : v \in Versions}
                  \cup {[HasLine({PAPER}) EXCEPT !.version = Some("2.0")]}

InitVersion ==
    \E k \in 0..MaxLines : \E ls \in Logs(VersionLines, k) :
        \E cfg \in PlainConfigs : Start(ls, 0, 0, cfg)

SpecVersion == InitVersion /\ [][Next]_vars

Yielding == {i \in DOMAIN Lines : Lines[i].version # <<>>}

(* C6: on a proxy platform the version of the report is none; on every     *)
(* other platform it is the version of the first line, over all lines,     *)
(* that yields one, and none when no line does.                            *)
C6_VersionFirstMatchNoneForProxy ==
    Built =>
        IF TheReport.platform \in Proxies THEN TheReport.version = <<>>
        ELSE IF Yielding = {} THEN TheReport.version = <<>>
        ELSE TheReport.version = Lines[First(Yielding)].version

(* C6 witness: a Forge log whose second and third line yield different     *)
(* versions reports the second line's.                                     *)
C6_Witness ==
    /\ Built /\ Len(Lines) = 3
    /\ Has(1, FORGE)
    /\ Lines[2].version = <<"1.0">> /\ Lines[3].version = <<"2.0">>
    /\ TheReport.version = <<"1.0">>

(* C6 witness, second case: a proxy log with a version line reports none *)
C6_WitnessProxy ==
    /\ Built /\ Len(Lines) = 2
    /\ Has(1, WATERFALL) /\ Lines[2].version # <<>>
    /\ TheReport.version = <<>>

----------------------------------------------------------------------------
(* Vanilla ports: lines that yield one port for a set of messages, a line  *)
(* that contains a message without a port to extract                       *)
VanillaLine(ms, p) ==
    [BlankLine EXCEPT !.has = ms,
                      !.vport = [m \in VanillaMessages |->
                                    IF m \in ms THEN Some(p) ELSE None]]

VanillaLines ==
    PlatformLines
    \cup {VanillaLine(ms, p) : ms \in (SUBSET VanillaMessages) \ {{}},
                               p \in VanillaPortValues}
    \cup {HasLine({SERVER_PORT_MESSAGE})}

InitVanilla ==
    \E k \in 0..MaxLines : \E ls \in Logs(VanillaLines, k) :
        \E cfg \in PlainConfigs : Start(ls, 0, 0, cfg)

SpecVanilla == InitVanilla /\ [][Next]_vars

Matching(message) == {i \in DOMAIN Lines : Lines[i].vport[message] # <<>>}

LastMatch(message) ==
    IF Matching(message) = {} THEN <<>>
    ELSE Lines[Last(Matching(message))].vport[message]

(* C5: on every platform each of server, query and rcon is the port of the *)
(* last line, over all lines, that matches the field's message, and none   *)
(* exactly when no line matches it.                                        *)
C5_VanillaPortsLastMatchWins ==
    Built =>
        /\ TheReport.ports.vanilla.server = LastMatch(SERVER_PORT_MESSAGE)
        /\ TheReport.ports.vanilla.query = LastMatch(QUERY_PORT_MESSAGE)
        /\ TheReport.ports.vanilla.rcon = LastMatch(RCON_PORT_MESSAGE)

(* C5 witness: two lines announce the server port with different values,   *)
(* a third the query port; the report holds the later server port, the     *)
(* query port, and no rcon port.                                           *)
C5_Witness ==
    /\ Built /\ Len(Lines) = 3
    /\ Lines[1].vport[SERVER_PORT_MESSAGE] = <<25565>>
    /\ Lines[2].vport[SERVER_PORT_MESSAGE] = <<25575>>
    /\ Lines[3].vport[SERVER_PORT_MESSAGE] = <<>>
    /\ Lines[3].vport[QUERY_PORT_MESSAGE] = <<25565>>
    /\ Matching(RCON_PORT_MESSAGE) = {}
    /\ TheReport.ports.vanilla =
           [server |-> <<25575>>, query |-> <<25565>>, rcon |-> <<>>]

(* C5 witness, second case: a proxy log reports its vanilla ports *)
C5_WitnessProxy ==
    /\ Built /\ TheReport.platform = "Velocity"
    /\ TheReport.ports.vanilla.rcon = <<25575>>


----------------------------------------------------------------------------
(* Pattern-table ports *)
Table1 ==
    [ports |-> [plugins |-> ("dynmap" :> <<WEB_A, WEB_B>>) @@ ("votifier" :> <<VOTE>>),
                mods    |-> ("bluemap" :> <<WEB_B, WEB_A>>)]]

Table2 ==
    [ports |-> [plugins |-> ("dynmap" :> <<WEB_A>>) @@ ("bluemap" :> <<WEB_A, VOTE>>),
                mods    |-> ("voicechat" :> <<VOTE>>) @@ ("bluemap" :> <<WEB_B>>)]]

PortConfigs == {MissingFile, File(Table1), File(Table2)}

(* lines that contain one trigger and yield a port, one that contains a    *)
(* trigger and yields none, two that contain two triggers and yield a      *)
(* different port for each                                                 *)
PortLines ==
    {HasLine({b}) : b \in {PAPER, PURPUR, FORGE, FABRIC, VELOCITY}}
    \cup {BlankLine}
    \cup {PortLine(t :> Some(p)) : t \in Triggers, p \in PortValues}
    \cup {PortLine(WEB_A :> None)}
    \cup {PortLine((WEB_A :> Some(8123)) @@ (WEB_B :> Some(8192))),
          PortLine((WEB_A :> Some(8192)) @@ (WEB_B :> Some(8123)))}

InitPorts ==
    \E k \in 0..MaxLines : \E ls \in Logs(PortLines, k) :
        \E limit \in 0..(k + 1) : \E cfg \in PortConfigs :
            Start(ls, 0, limit, cfg)

SpecPorts == InitPorts /\ [][Next]_vars

(* the successful extractions for an entry with substrings subs: line i of *)
(* the window contains subs[j] and yields a port for it                    *)
Hits(subs, limit) ==
    {h \in Window(limit) \X DOMAIN subs :
        /\ subs[h[2]] \in Lines[h[1]].has
        /\ Lines[h[1]].pport[subs[h[2]]] # <<>>}

(* the last of them by line order, then by substring order *)
LastHit(H) ==
    CHOOSE h \in H : \A g \in H : g[1] < h[1] \/ (g[1] = h[1] /\ g[2] <= h[2])

(* the mapping expected of one section of the table *)
SectionAgrees(m, section, limit) ==
    /\ DOMAIN m = {n \in DOMAIN section : Hits(section[n], limit) # {}}
    /\ \A n \in DOMAIN m :
          LET h == LastHit(Hits(section[n], limit))
          IN  m[n] = Lines[h[1]].pport[section[n][h[2]]][1]

(* C7: ports.plugins is empty unless the platform is Bukkit-derived and    *)
(* ports.mods is empty unless it is Forge or Fabric; otherwise, over the   *)
(* first ports_limit lines, a name is present exactly when some line       *)
(* contains one of its entry's substrings and yields a port for it, with   *)
(* the value of the last such extraction by line, then by substring.       *)
C7_TablePortsAlternativesLastWins ==
    Built =>
        LET r == TheReport
            root == config.root.ports
            limit == input.ports_limit
        IN  /\ IF r.platform \in BukkitDerived
               THEN SectionAgrees(r.ports.plugins, root.plugins, limit)
               ELSE DOMAIN r.ports.plugins = {}
            /\ IF r.platform \in Modded
               THEN SectionAgrees(r.ports.mods, root.mods, limit)
               ELSE DOMAIN r.ports.mods = {}

(* C7 witness: a Paper log under Table1 with limit 2: the second line      *)
(* contains only the second substring of dynmap's entry and sets its port; *)
(* the third line, with the first substring, is beyond the limit.          *)
C7_Witness ==
    /\ Built /\ config.root = Table1 /\ Len(Lines) = 3 /\ input.ports_limit = 2
    /\ Has(1, PAPER)
    /\ Lines[2].has = {WEB_B} /\ Lines[2].pport[WEB_B] = <<8192>>
    /\ Lines[3].has = {WEB_A} /\ Lines[3].pport[WEB_A] = <<8123>>
    /\ DOMAIN TheReport.ports.plugins = {"dynmap"}
    /\ TheReport.ports.plugins["dynmap"] = 8192
    /\ DOMAIN TheReport.ports.mods = {}

(* C7 witness, second case: a Forge log under Table1 whose line contains   *)
(* both substrings of bluemap's entry <<WEB_B, WEB_A>> keeps the port of   *)
(* the later substring, WEB_A.                                             *)
C7_WitnessSubstringOrder ==
    /\ Built /\ config.root = Table1 /\ Len(Lines) = 2 /\ input.ports_limit = 2
    /\ Has(1, FORGE)
    /\ Lines[2].pport[WEB_A] = <<8123>> /\ Lines[2].pport[WEB_B] = <<8192>>
    /\ TheReport.ports.mods["bluemap"] = 8123
    /\ DOMAIN TheReport.ports.plugins = {}


----------------------------------------------------------------------------
(* The whole report: one line per platform, one line per extractor, and a  *)
(* line on which every extractor yields; every state of the pattern table. *)
RichLine ==
    [has     |-> {SERVER_PORT_MESSAGE, WEB_A},
     plugin  |-> Some([name |-> "Vault", version |-> "2.0"]),
     version |-> Some("2.0"),
     vport   |-> [m \in VanillaMessages |->
                     IF m = SERVER_PORT_MESSAGE THEN Some(25575) ELSE None],
     pport   |-> [t \in Triggers |-> IF t = WEB_A THEN Some(8192) ELSE None]]

ReportLines ==
    PlatformLines
    \cup {PluginLine("Essentials", "1.0"), VersionLine("1.0"),
          VanillaLine({QUERY_PORT_MESSAGE}, 25565),
          PortLine(WEB_A :> Some(8123)), RichLine}

ReportConfigs == {NoCwd, MissingFile, MalformedFile, File(EmptyRoot), File(Table1)}

Init ==
    \E k \in 0..MaxReportLines : \E ls \in Logs(ReportLines, k) :
        \E plugins_limit \in 0..(k + 1), ports_limit \in 0..(k + 1) :
            \E cfg \in ReportConfigs :
                Start(ls, plugins_limit, ports_limit, cfg)

Spec == Init /\ [][Next]_vars

(* C8: in every report is_proxy holds iff the platform is BungeeCord,      *)
(* Waterfall or Velocity, is_modded iff it is Forge or Fabric,             *)
(* is_bukkit_based iff it is CraftBukkit, Spigot, Paper, Pufferfish or     *)
(* Purpur; at most one flag is set, and none exactly for Vanilla.          *)
C8_FlagsFollowPlatform ==
    Built =>
        LET r == TheReport
            flags == <<r.is_proxy, r.is_modded, r.is_bukkit_based>>
            set == {i \in 1..3 : flags[i]}
        IN  /\ r.platform \in Platform
            /\ r.platform = unwrap(analyzer).platform
            /\ r.is_proxy = (r.platform \in {"BungeeCord", "Waterfall", "Velocity"})
            /\ r.is_modded = (r.platform \in {"Forge", "Fabric"})
            /\ r.is_bukkit_based =
                  (r.platform \in {"CraftBukkit", "Spigot", "Paper", "Pufferfish", "Purpur"})
            /\ Cardinality(set) <= 1
            /\ (set = {}) = (r.platform = "Vanilla")

(* C8 witness: a report for Purpur with is_bukkit_based alone set *)
C8_Witness ==
    /\ Built /\ TheReport.platform = "Purpur"
    /\ TheReport.is_bukkit_based /\ ~TheReport.is_proxy /\ ~TheReport.is_modded

(* C8 witness, second case: a report for Vanilla with no flag set *)
C8_WitnessVanilla ==
    /\ Built /\ TheReport.platform = "Vanilla"
    /\ ~TheReport.is_bukkit_based /\ ~TheReport.is_proxy /\ ~TheReport.is_modded

(* C9: when the pattern table cannot be loaded, build fails with an error  *)
(* the caller can tell apart and handle: the process never aborts, and no  *)
(* report, empty or partial, is produced.                                  *)
C9_LoadFailureIsAnErrorNotACrash ==
    /\ panic = None
    /\ Built => load_error(config) = None

(* C9, the part that holds: no report is produced when the table cannot be *)
(* loaded. *)
C9_NoReportOnLoadFailure ==
    Built => (config.cwd /\ config.exists /\ config.parses)

(* C9: the state the code reaches instead: build aborted on the unwrap of  *)
(* read_to_string with the file missing                                    *)
C9_PanicReached ==
    /\ ~config.exists /\ config.cwd
    /\ panic # None /\ report = None

(* C10: in every report a non-empty plugins mapping implies                *)
(* is_bukkit_based, a non-empty ports.plugins implies is_bukkit_based, a   *)
(* non-empty ports.mods implies is_modded, ports.plugins and ports.mods    *)
(* are never both non-empty, and a present version implies not is_proxy.   *)
C10_FieldsFollowPlatformClass ==
    Built =>
        LET r == TheReport
        IN  /\ (DOMAIN r.plugins # {}) => r.is_bukkit_based
            /\ (DOMAIN r.ports.plugins # {}) => r.is_bukkit_based
            /\ (DOMAIN r.ports.mods # {}) => r.is_modded
            /\ ~(DOMAIN r.ports.plugins # {} /\ DOMAIN r.ports.mods # {})
            /\ (r.version # <<>>) => ~r.is_proxy

(* C10 witness: a Forge log with a line on which every extractor yields,   *)
(* under Table1: ports.mods, the version and the vanilla server port are   *)
(* set, plugins and ports.plugins are empty.                               *)
C10_Witness ==
    /\ Built /\ config.root = Table1 /\ Len(Lines) = 2
    /\ Has(1, FORGE) /\ Lines[2] = RichLine /\ input.ports_limit = 2
    /\ input.plugins_limit = 2
    /\ DOMAIN TheReport.ports.mods = {"bluemap"}
    /\ DOMAIN TheReport.ports.plugins = {}
    /\ DOMAIN TheReport.plugins = {}
    /\ TheReport.version = <<"2.0">>
    /\ TheReport.ports.vanilla.server = <<25575>>

(* C10 witness, second case: a proxy log reports its vanilla ports and     *)
(* nothing else                                                            *)
C10_WitnessProxy ==
    /\ Built /\ TheReport.is_proxy /\ Lines[Len(Lines)] = RichLine
    /\ TheReport.ports.vanilla.server = <<25575>>
    /\ TheReport.version = <<>> /\ DOMAIN TheReport.plugins = {}

=============================================================================
